---------------------------- MODULE Spec2Model ----------------------------
(***************************************************************************)
(* Model of the cmake-skill examples: the example library (get_version,    *)
(* add), the consumer executable that calls it, and the fetchcontent       *)
(* executable that prints through fmt and serializes a nlohmann::json      *)
(* value.  Text is modelled as sequences of one-character strings so that  *)
(* formatting and serialization are computed, not assumed.                 *)
(***************************************************************************)
EXTENDS Integers, Sequences, FiniteSets, TLC

(***************************************************************************)
(* Bounds.  int is modelled with IntBits bits (two's complement); the      *)
(* library driver draws its operands from the values within Near of        *)
(* INT_MIN, of 0 and of INT_MAX, plus the literals of the consumer.        *)
(***************************************************************************)
IntBits == 5

Near == 2

INT_MAX == 2^(IntBits - 1) - 1

INT_MIN == -(2^(IntBits - 1))

IntRange == INT_MIN..INT_MAX

InRange(v) == INT_MIN <= v /\ v <= INT_MAX

\* The literal operands of the consumer: example::add(5, 7).
LitA == 5

LitB == 7

Operands ==
    {v \in IntRange : \/ v <= INT_MIN + Near
                      \/ v >= INT_MAX - Near
                      \/ (-Near <= v /\ v <= Near)
                      \/ v \in {LitA, LitB}}

(***************************************************************************)
(* Return values.  A call yields a std::string, an int, or (signed         *)
(* overflow being undefined) a trap that ends the process.                 *)
(***************************************************************************)
NoRet == [kind |-> "none", s |-> <<>>, i |-> 0]

StrRet(str) == [kind |-> "string", s |-> str, i |-> 0]

IntRet(v) == [kind |-> "int", s |-> <<>>, i |-> v]

Trap == [kind |-> "trap", s |-> <<>>, i |-> 0]

(***************************************************************************)
(* example_lib.cpp                                                         *)
(***************************************************************************)
\* Faulty variant: the version literal of an earlier release.
get_version_old == StrRet(<<"0", ".", "9", ".", "0">>)

get_version == StrRet(<<"1", ".", "0", ".", "0">>)

\* Faulty variant: `return a - b;`.
add_minus(a, b) ==
    IF InRange(a - b)
    THEN {IntRet(a - b)}
    ELSE {IntRet(v) : v \in IntRange} \cup {Trap}

\* Faulty variant: `return a + a;`.
add_twice(a, b) ==
    IF InRange(a + a)
    THEN {IntRet(a + a)}
    ELSE {IntRet(v) : v \in IntRange} \cup {Trap}

\* Faulty variant: the addition done in a type one bit narrower than int.
add_narrow(a, b) ==
    IF InRange(2 * (a + b))
    THEN {IntRet(a + b)}
    ELSE {IntRet(v) : v \in IntRange} \cup {Trap}

\* The set of outcomes of `return a + b;` on int operands: the sum when it
\* is representable; otherwise the behaviour is undefined and a build may
\* yield any int or trap.
add(a, b) ==
    IF InRange(a + b)
    THEN {IntRet(a + b)}
    ELSE {IntRet(v) : v \in IntRange} \cup {Trap}

(***************************************************************************)
(* Text helpers.                                                           *)
(***************************************************************************)
Ascii ==
 << " ", "!", "\"", "#", "$", "%", "&", "'", "(", ")", "*", "+", ",", "-", ".", "/",
    "0", "1", "2", "3", "4", "5", "6", "7", "8", "9", ":", ";", "<", "=", ">", "?",
    "@", "A", "B", "C", "D", "E", "F", "G", "H", "I", "J", "K", "L", "M", "N", "O",
    "P", "Q", "R", "S", "T", "U", "V", "W", "X", "Y", "Z", "[", "\\", "]", "^", "_",
    "GRAVE", "a", "b", "c", "d", "e", "f", "g", "h", "i", "j", "k", "l", "m", "n", "o",
    "p", "q", "r", "s", "t", "u", "v", "w", "x", "y", "z", "{", "|", "}", "~" >>

\* Character code of a printable character (newline is 10).  Position 65 of
\* Ascii stands for the grave accent, which no text of the examples uses.
Code(c) ==
    IF c = "\n" THEN 10
    ELSE 31 + (CHOOSE k \in 1..Len(Ascii) : Ascii[k] = c)

DigitChar(d) == Ascii[17 + d]

IsPrefix(p, t) == Len(p) <= Len(t) /\ SubSeq(t, 1, Len(p)) = p

RECURSIVE Spaces(_)
Spaces(n) == IF n <= 0 THEN <<>> ELSE <<" ">> \o Spaces(n - 1)

RECURSIVE Pow10(_)
Pow10(n) == IF n <= 0 THEN 1 ELSE 10 * Pow10(n - 1)

\* Decimal digits of a natural number, most significant first.
RECURSIVE NatToStr(_)
NatToStr(n) ==
    IF n < 10 THEN <<DigitChar(n)>>
    ELSE NatToStr(n \div 10) \o <<DigitChar(n % 10)>>

\* Faulty variant: digits emitted least significant first.
RECURSIVE NatToStrLsd(_)
NatToStrLsd(n) ==
    IF n < 10 THEN <<DigitChar(n)>>
    ELSE <<DigitChar(n % 10)>> \o NatToStrLsd(n \div 10)

IntToStr_reversed(n) ==
    IF n < 0 THEN <<"-">> \o NatToStrLsd(-n) ELSE NatToStrLsd(n)

\* operator<<(std::ostream&, int): decimal, '-' for negatives.
IntToStr(n) == IF n < 0 THEN <<"-">> \o NatToStr(-n) ELSE NatToStr(n)

\* A natural number as exactly w digits, zero-padded on the left.
RECURSIVE PadDigits(_, _)
PadDigits(n, w) ==
    IF w <= 0 THEN <<>>
    ELSE PadDigits(n \div 10, w - 1) \o <<DigitChar(n % 10)>>

(***************************************************************************)
(* fmt: fixed-point formatting and format-string substitution.             *)
(***************************************************************************)
\* A floating literal as the decimal it is written as: mant / 10^exp.
Dec(mant, exp) == [mant |-> mant, exp |-> exp]

\* The "f" presentation with prec digits after the point: the value is
\* exact when it has no more than prec decimals, otherwise rounded to nearest,
\* ties to even; then integer part, point, zero-padded fraction.
FormatFixed(d, prec) ==
    LET m    == IF d.mant < 0 THEN -d.mant ELSE d.mant
        unit == Pow10(d.exp - prec)
        q    == m \div unit
        r    == m % unit
        n    == IF prec >= d.exp THEN m * Pow10(prec - d.exp)
                ELSE IF 2 * r > unit \/ (2 * r = unit /\ q % 2 = 1)
                THEN q + 1 ELSE q
        sign == IF d.mant < 0 THEN <<"-">> ELSE <<>>
    IN  sign \o NatToStr(n \div Pow10(prec)) \o
        (IF prec > 0 THEN <<".">> \o PadDigits(n % Pow10(prec), prec)
         ELSE <<>>)

IsDigit(c) == c \in {DigitChar(k) : k \in 0..9}

\* Value of a run of decimal digits.
RECURSIVE ParseNat(_)
ParseNat(ds) ==
    IF ds = <<>> THEN 0
    ELSE 10 * ParseNat(SubSeq(ds, 1, Len(ds) - 1)) + (Code(ds[Len(ds)]) - 48)

\* Faulty variant: the precision of the spec is ignored.
SpecPrecision_default(fs) == 6

\* Precision of a replacement-field spec such as ":.2f"; 6 when absent.
SpecPrecision(fs) ==
    IF Len(fs) >= 3 /\ fs[1] = ":" /\ fs[2] = "."
    THEN ParseNat(SelectSeq(SubSeq(fs, 3, Len(fs)), IsDigit))
    ELSE 6

\* fmt::format of a format string with one floating argument: text is
\* copied, a replacement field {...} is replaced by the formatted argument.
RECURSIVE FmtFormat(_, _)
FmtFormat(f, arg) ==
    IF f = <<>> THEN <<>>
    ELSE IF f[1] = "{"
    THEN LET close == CHOOSE k \in 2..Len(f) :
                          f[k] = "}" /\ \A q \in 2..(k - 1) : f[q] # "}"
         IN  FormatFixed(arg, SpecPrecision(SubSeq(f, 2, close - 1))) \o
             FmtFormat(SubSeq(f, close + 1, Len(f)), arg)
    ELSE <<f[1]>> \o FmtFormat(Tail(f), arg)

(***************************************************************************)
(* nlohmann::json values: null, string, array (elems), object (m, a map    *)
(* from key to value, iterated in key order as std::map does).             *)
(***************************************************************************)
JNull == [t |-> "null", s |-> <<>>, elems |-> <<>>, m |-> <<>>]

JString(str) == [t |-> "string", s |-> str, elems |-> <<>>, m |-> <<>>]

JArray(es) == [t |-> "array", s |-> <<>>, elems |-> es, m |-> <<>>]

JObject(map) == [t |-> "object", s |-> <<>>, elems |-> <<>>, m |-> map]

JTypeError == [t |-> "type_error", s |-> <<>>, elems |-> <<>>, m |-> <<>>]

\* basic_json(initializer_list): an object when every element is a
\* two-element array whose first element is a string, an array otherwise.
JInitList(es) ==
    LET isPair(e) == e.t = "array" /\ Len(e.elems) = 2 /\ e.elems[1].t = "string"
    IN  IF \A k \in 1..Len(es) : isPair(es[k])
        THEN JObject([key \in {es[k].elems[1].s : k \in 1..Len(es)} |->
                        LET k == CHOOSE q \in 1..Len(es) : es[q].elems[1].s = key
                        IN  es[k].elems[2]])
        ELSE JArray(es)

\* Faulty variant: the assignment replaces the whole value by a one-member
\* object.
JIndexAssign_overwrite(jv, key, v) == JObject([q \in {key} |-> v])

\* j[key] = v: a null value becomes an object; an object gets or replaces
\* the member; any other type throws type_error.
JIndexAssign(jv, key, v) ==
    IF jv.t = "null" THEN JObject([q \in {key} |-> v])
    ELSE IF jv.t = "object"
    THEN JObject([q \in (DOMAIN jv.m) \cup {key} |->
                    IF q = key THEN v ELSE jv.m[q]])
    ELSE JTypeError

\* std::less<std::string>: lexicographic by character code; u is less than
\* v when, at the first position where they differ, u has ended or has the
\* smaller character.
StrLess(u, v) ==
    \E k \in 1..Len(v) :
        /\ k <= Len(u) + 1
        /\ \A q \in 1..(k - 1) : u[q] = v[q]
        /\ (k = Len(u) + 1 \/ Code(u[k]) < Code(v[k]))

\* The keys of a std::map in iteration order: strictly increasing.
SortedKeys(ks) ==
    LET n == Cardinality(ks)
    IN  CHOOSE sq \in [1..n -> ks] :
            \A a, b \in 1..n : a < b => StrLess(sq[a], sq[b])

RECURSIVE ConcatTo(_, _)
ConcatTo(ss, n) == IF n <= 0 THEN <<>> ELSE ConcatTo(ss, n - 1) \o ss[n]

\* Concatenation of a sequence of texts (the sequence is evaluated once).
Concat(texts) == CHOOSE r \in {ConcatTo(ss, Len(ss)) : ss \in {texts}} : TRUE

\* Escaping of a string's characters in the dump.
EscapeChar(c) ==
    IF c = "\"" THEN <<"\\", "\"">>
    ELSE IF c = "\\" THEN <<"\\", "\\">>
    ELSE IF c = "\n" THEN <<"\\", "n">>
    ELSE <<c>>

Escape(str) == Concat([k \in 1..Len(str) |-> EscapeChar(str[k])])

Quoted(str) == <<"\"">> \o Escape(str) \o <<"\"">>

\* basic_json::dump(indent) at current indentation cur: pretty-printed, one
\* element or member per line, members in key order.
RECURSIVE Dump(_, _, _)
Dump(value, indent, current) ==
    LET Elements(v, cur) ==
            Concat([k \in 1..Len(v.elems) |->
                      Spaces(cur + indent) \o
                      Dump(v.elems[k], indent, cur + indent) \o
                      (IF k < Len(v.elems) THEN <<",", "\n">> ELSE <<"\n">>)])
        Members(v, cur, ks) ==
            Concat([k \in 1..Len(ks) |->
                      Spaces(cur + indent) \o
                      Quoted(ks[k]) \o <<":", " ">> \o
                      Dump(v.m[ks[k]], indent, cur + indent) \o
                      (IF k < Len(ks) THEN <<",", "\n">> ELSE <<"\n">>)])
        Text(v, cur) ==
            CASE v.t = "string" -> Quoted(v.s)
              [] v.t = "array"  ->
                    IF v.elems = <<>> THEN <<"[", "]">>
                    ELSE <<"[", "\n">> \o Elements(v, cur) \o
                         Spaces(cur) \o <<"]">>
              [] v.t = "object" ->
                    IF DOMAIN v.m = {} THEN <<"{", "}">>
                    ELSE <<"{", "\n">> \o
                         (CHOOSE r \in {Members(v, cur, ks) :
                                           ks \in {SortedKeys(DOMAIN v.m)}} : TRUE) \o
                         Spaces(cur) \o <<"}">>
              [] OTHER          -> <<"n", "u", "l", "l">>
    IN  \* the arguments are evaluated once
        CHOOSE r \in {Text(v, cur) : v \in {value}, cur \in {current}} : TRUE

(***************************************************************************)
(* Standard output.  buf is the C stdio buffer of stdout, fd the text that *)
(* has reached file descriptor 1.  Whether a write is followed by a flush  *)
(* (line-buffered terminal, full buffer) is up to the environment.         *)
(***************************************************************************)
StdioFlush(st) == [buf |-> <<>>, fd |-> st.fd \o st.buf]

StdioWrite(st, text, flush) ==
    LET w == [st EXCEPT !.buf = @ \o text]
    IN  IF flush THEN StdioFlush(w) ELSE w

\* fmt::print(fmt, args...) writes the formatted text to the C stream stdout.
FmtPrint(st, text, flush) == StdioWrite(st, text, flush)

\* Faulty variant: cout not synchronized with stdio, its characters reach
\* the file descriptor without passing through the C stream's buffer.
CoutWrite_unsynced(st, text, flush) == [st EXCEPT !.fd = @ \o text]

\* std::cout << text: cout is synchronized with stdio (the default, never
\* changed by either main), so the characters go through the C stream.
CoutWrite(st, text, flush) == StdioWrite(st, text, flush)

\* std::endl: write a newline, then flush.
CoutEndl(st) == StdioFlush(CoutWrite(st, <<"\n">>, FALSE))

\* Everything written so far, flushed or not.
Written(st) == st.fd \o st.buf

\* The complete (newline-terminated) lines of a text.
RECURSIVE SplitLines(_)
SplitLines(text) ==
    IF \A k \in 1..Len(text) : text[k] # "\n" THEN <<>>
    ELSE LET nl == CHOOSE k \in 1..Len(text) :
                       text[k] = "\n" /\ \A q \in 1..(k - 1) : text[q] # "\n"
         IN  <<SubSeq(text, 1, nl - 1)>> \o
             SplitLines(SubSeq(text, nl + 1, Len(text)))

(***************************************************************************)
(* State.                                                                  *)
(***************************************************************************)
VARIABLES
    prog,     \* which executable runs: "driver", "consumer", "fetchcontent"
    pc,       \* position in its main
    x, y,     \* the caller's argument values
    ret,      \* value returned by the library call just made
    last,     \* the last library call made: "none", "get_version", "add"
    prev,     \* the library call made before that one
    result,   \* consumer main's local `result`
    j,        \* fetchcontent main's local `j`
    io,       \* standard output
    status    \* exit status; -1 while the process runs

vars == <<prog, pc, x, y, ret, last, prev, result, j, io, status>>

Programs == {"driver", "consumer", "fetchcontent"}

Init ==
    /\ prog \in Programs
    /\ pc = CASE prog = "driver" -> "setx"
              [] prog = "consumer" -> "c7a"
              [] OTHER -> "f9"
    /\ x = IF prog = "consumer" THEN LitA ELSE 0
    /\ y = IF prog = "consumer" THEN LitB ELSE 0
    /\ ret = NoRet
    /\ last = "none"
    /\ prev = "none"
    /\ result = 0
    /\ j = JNull
    /\ io = [buf |-> <<>>, fd |-> <<>>]
    /\ status = -1

(***************************************************************************)
(* Library driver: any sequence of calls of get_version() and add(x, y),   *)
(* with any operands.                                                      *)
(***************************************************************************)
\* The caller sets its first operand; the value returned before is dropped.
DriverSetX ==
    /\ prog = "driver" /\ pc = "setx"
    /\ \E a \in Operands : x' = a
    /\ ret' = NoRet
    /\ pc' = "sety"
    /\ UNCHANGED <<prog, y, last, prev, result, j, io, status>>

\* The caller sets its second operand.
DriverSetY ==
    /\ prog = "driver" /\ pc = "sety"
    /\ \E b \in Operands : y' = b
    /\ pc' = "call"
    /\ UNCHANGED <<prog, x, ret, last, prev, result, j, io, status>>

DriverGetVersion ==
    /\ prog = "driver" /\ pc = "call"
    /\ ret' = get_version
    /\ last' = "get_version"
    /\ prev' = last
    /\ pc' = "setx"
    /\ UNCHANGED <<prog, x, y, result, j, io, status>>

DriverAdd ==
    /\ prog = "driver" /\ pc = "call"
    /\ \E r \in add(x, y) :
          /\ ret' = r
          /\ pc' = IF r.kind = "trap" THEN "aborted" ELSE "setx"
          /\ status' = IF r.kind = "trap" THEN 134 ELSE status
    /\ last' = "add"
    /\ prev' = last
    /\ UNCHANGED <<prog, x, y, result, j, io>>

(***************************************************************************)
(* consumer/main.cpp                                                       *)
(***************************************************************************)
\* line 7: std::cout << "ExampleLib version: "
ConsumerVersionLabel ==
    /\ prog = "consumer" /\ pc = "c7a"
    /\ \E fl \in BOOLEAN :
          io' = CoutWrite(io, <<"E", "x", "a", "m", "p", "l", "e", "L", "i", "b",
                                " ", "v", "e", "r", "s", "i", "o", "n", ":", " ">>, fl)
    /\ pc' = "c7b"
    /\ UNCHANGED <<prog, x, y, ret, last, prev, result, j, status>>

\* Faulty variant: get_version() also prints the version.
ConsumerGetVersion_logging ==
    /\ prog = "consumer" /\ pc = "c7b"
    /\ ret' = get_version
    /\ last' = "get_version"
    /\ prev' = last
    /\ io' = StdioWrite(io, get_version.s, FALSE)
    /\ pc' = "c7c"
    /\ UNCHANGED <<prog, x, y, result, j, status>>

\* line 7: example::get_version()
ConsumerGetVersion ==
    /\ prog = "consumer" /\ pc = "c7b"
    /\ ret' = get_version
    /\ last' = "get_version"
    /\ prev' = last
    /\ pc' = "c7c"
    /\ UNCHANGED <<prog, x, y, result, j, io, status>>

\* line 7: ... << (the returned string)
ConsumerVersionValue ==
    /\ prog = "consumer" /\ pc = "c7c"
    /\ \E fl \in BOOLEAN : io' = CoutWrite(io, ret.s, fl)
    /\ pc' = "c7d"
    /\ UNCHANGED <<prog, x, y, ret, last, prev, result, j, status>>

\* line 7: ... << std::endl
ConsumerVersionEndl ==
    /\ prog = "consumer" /\ pc = "c7d"
    /\ io' = CoutEndl(io)
    /\ pc' = "c9a"
    /\ UNCHANGED <<prog, x, y, ret, last, prev, result, j, status>>

\* line 9: example::add(5, 7)
ConsumerAdd ==
    /\ prog = "consumer" /\ pc = "c9a"
    /\ \E r \in add(x, y) :
          /\ ret' = r
          /\ pc' = IF r.kind = "trap" THEN "aborted" ELSE "c9b"
          /\ status' = IF r.kind = "trap" THEN 134 ELSE status
    /\ last' = "add"
    /\ prev' = last
    /\ UNCHANGED <<prog, x, y, result, j, io>>

\* line 9: int result = (the returned value)
ConsumerAssign ==
    /\ prog = "consumer" /\ pc = "c9b"
    /\ result' = ret.i
    /\ pc' = "c10a"
    /\ UNCHANGED <<prog, x, y, ret, last, prev, j, io, status>>

\* line 10: std::cout << "5 + 7 = "
ConsumerSumLabel ==
    /\ prog = "consumer" /\ pc = "c10a"
    /\ \E fl \in BOOLEAN :
          io' = CoutWrite(io, <<"5", " ", "+", " ", "7", " ", "=", " ">>, fl)
    /\ pc' = "c10b"
    /\ UNCHANGED <<prog, x, y, ret, last, prev, result, j, status>>

\* line 10: ... << result
ConsumerSumValue ==
    /\ prog = "consumer" /\ pc = "c10b"
    /\ \E fl \in BOOLEAN : io' = CoutWrite(io, IntToStr(result), fl)
    /\ pc' = "c10c"
    /\ UNCHANGED <<prog, x, y, ret, last, prev, result, j, status>>

\* line 10: ... << std::endl
ConsumerSumEndl ==
    /\ prog = "consumer" /\ pc = "c10c"
    /\ io' = CoutEndl(io)
    /\ pc' = "c12"
    /\ UNCHANGED <<prog, x, y, ret, last, prev, result, j, status>>

\* line 12: return 0 (leaving main flushes stdout)
ConsumerReturn ==
    /\ prog = "consumer" /\ pc = "c12"
    /\ io' = StdioFlush(io)
    /\ status' = 0
    /\ pc' = "done"
    /\ UNCHANGED <<prog, x, y, ret, last, prev, result, j>>

(***************************************************************************)
(* fetchcontent/main.cpp                                                   *)
(***************************************************************************)
\* The floating literal 3.14159 of line 10.
Number == Dec(314159, 5)

\* The format string of line 10: "Formatted number: {:.2f}\n".
NumberFormat ==
    <<"F", "o", "r", "m", "a", "t", "t", "e", "d", " ", "n", "u", "m", "b", "e", "r",
      ":", " ", "{", ":", ".", "2", "f", "}", "\n">>

\* line 9: fmt::print("Hello from fmt library!\n")
FetchHello ==
    /\ prog = "fetchcontent" /\ pc = "f9"
    /\ \E fl \in BOOLEAN :
          io' = FmtPrint(io, FmtFormat(<<"H", "e", "l", "l", "o", " ", "f", "r", "o", "m",
                                         " ", "f", "m", "t", " ", "l", "i", "b", "r", "a",
                                         "r", "y", "!", "\n">>, Number), fl)
    /\ pc' = "f10"
    /\ UNCHANGED <<prog, x, y, ret, last, prev, result, j, status>>

\* line 10: fmt::print("Formatted number: {:.2f}\n", 3.14159)
FetchNumber ==
    /\ prog = "fetchcontent" /\ pc = "f10"
    /\ \E fl \in BOOLEAN : io' = FmtPrint(io, FmtFormat(NumberFormat, Number), fl)
    /\ pc' = "f13"
    /\ UNCHANGED <<prog, x, y, ret, last, prev, result, j, status>>

\* line 13: nlohmann::json j;
FetchDeclare ==
    /\ prog = "fetchcontent" /\ pc = "f13"
    /\ j' = JNull
    /\ pc' = "f14"
    /\ UNCHANGED <<prog, x, y, ret, last, prev, result, io, status>>

\* j[key] = v, then on to position next; an uncaught type_error ends the
\* process.
FetchAssign(next, key, v) ==
    LET nj == JIndexAssign(j, key, v)
    IN  IF nj.t = "type_error"
        THEN pc' = "aborted" /\ status' = 134 /\ UNCHANGED j
        ELSE pc' = next /\ j' = nj /\ UNCHANGED status

\* line 14: j["name"] = "FetchContent Example";
FetchName ==
    /\ prog = "fetchcontent" /\ pc = "f14"
    /\ FetchAssign("f15", <<"n", "a", "m", "e">>,
                   JString(<<"F", "e", "t", "c", "h", "C", "o", "n", "t", "e", "n", "t",
                             " ", "E", "x", "a", "m", "p", "l", "e">>))
    /\ UNCHANGED <<prog, x, y, ret, last, prev, result, io>>

\* line 15: j["version"] = "1.0.0";
FetchVersion ==
    /\ prog = "fetchcontent" /\ pc = "f15"
    /\ FetchAssign("f16", <<"v", "e", "r", "s", "i", "o", "n">>,
                   JString(<<"1", ".", "0", ".", "0">>))
    /\ UNCHANGED <<prog, x, y, ret, last, prev, result, io>>

\* The initializer list of line 16: {"fmt", "nlohmann_json"}.
Dependencies ==
    <<JString(<<"f", "m", "t">>),
      JString(<<"n", "l", "o", "h", "m", "a", "n", "n", "_", "j", "s", "o", "n">>)>>

\* line 16: j["dependencies"] = {"fmt", "nlohmann_json"};
FetchDependencies ==
    /\ prog = "fetchcontent" /\ pc = "f16"
    /\ FetchAssign("f18",
                   <<"d", "e", "p", "e", "n", "d", "e", "n", "c", "i", "e", "s">>,
                   JInitList(Dependencies))
    /\ UNCHANGED <<prog, x, y, ret, last, prev, result, io>>

\* line 18: std::cout << "\nJSON output:\n";
FetchJsonLabel ==
    /\ prog = "fetchcontent" /\ pc = "f18"
    /\ \E fl \in BOOLEAN :
          io' = CoutWrite(io, <<"\n", "J", "S", "O", "N", " ", "o", "u", "t", "p", "u",
                                "t", ":", "\n">>, fl)
    /\ pc' = "f19a"
    /\ UNCHANGED <<prog, x, y, ret, last, prev, result, j, status>>

\* line 19: std::cout << j.dump(2)
FetchDump ==
    /\ prog = "fetchcontent" /\ pc = "f19a"
    /\ \E fl \in BOOLEAN : io' = CoutWrite(io, Dump(j, 2, 0), fl)
    /\ pc' = "f19b"
    /\ UNCHANGED <<prog, x, y, ret, last, prev, result, j, status>>

\* line 19: ... << std::endl
FetchEndl ==
    /\ prog = "fetchcontent" /\ pc = "f19b"
    /\ io' = CoutEndl(io)
    /\ pc' = "f21"
    /\ UNCHANGED <<prog, x, y, ret, last, prev, result, j, status>>

\* Faulty variant: main returns 1.
FetchReturn_failure ==
    /\ prog = "fetchcontent" /\ pc = "f21"
    /\ io' = StdioFlush(io)
    /\ status' = 1
    /\ pc' = "done"
    /\ UNCHANGED <<prog, x, y, ret, last, prev, result, j>>

\* line 21: return 0 (leaving main flushes stdout)
FetchReturn ==
    /\ prog = "fetchcontent" /\ pc = "f21"
    /\ io' = StdioFlush(io)
    /\ status' = 0
    /\ pc' = "done"
    /\ UNCHANGED <<prog, x, y, ret, last, prev, result, j>>

(***************************************************************************)
(* Specification.                                                          *)
(***************************************************************************)
\* A step of consumer's main.
ConsumerStep ==
    \/ ConsumerVersionLabel
    \/ ConsumerGetVersion
    \/ ConsumerVersionValue
    \/ ConsumerVersionEndl
    \/ ConsumerAdd
    \/ ConsumerAssign
    \/ ConsumerSumLabel
    \/ ConsumerSumValue
    \/ ConsumerSumEndl
    \/ ConsumerReturn

\* A step of fetchcontent's main.
FetchStep ==
    \/ FetchHello
    \/ FetchNumber
    \/ FetchDeclare
    \/ FetchName
    \/ FetchVersion
    \/ FetchDependencies
    \/ FetchJsonLabel
    \/ FetchDump
    \/ FetchEndl
    \/ FetchReturn

Next ==
    \/ DriverSetX
    \/ DriverSetY
    \/ DriverGetVersion
    \/ DriverAdd
    \/ ConsumerVersionLabel
    \/ ConsumerGetVersion
    \/ ConsumerVersionValue
    \/ ConsumerVersionEndl
    \/ ConsumerAdd
    \/ ConsumerAssign
    \/ ConsumerSumLabel
    \/ ConsumerSumValue
    \/ ConsumerSumEndl
    \/ ConsumerReturn
    \/ FetchHello
    \/ FetchNumber
    \/ FetchDeclare
    \/ FetchName
    \/ FetchVersion
    \/ FetchDependencies
    \/ FetchJsonLabel
    \/ FetchDump
    \/ FetchEndl
    \/ FetchReturn

Spec == Init /\ [][Next]_vars

\* Each main is a single thread that runs statement after statement with
\* nothing to wait for: a step of main that is possible is taken.
FairSpec == Spec /\ WF_vars(ConsumerStep) /\ WF_vars(FetchStep)

(***************************************************************************)
(* Properties.                                                             *)
(***************************************************************************)
\* The state right after a call of add(x, y): x and y are the arguments
\* passed, ret the outcome.
Returned == pc \notin {"sety", "call"}

AddReturned == last = "add" /\ Returned

\* The call sites of the library functions: the next step is the call.
CallSites == {"call", "c7b", "c9a"}

ConsumerVersionLine ==
    <<"E", "x", "a", "m", "p", "l", "e", "L", "i", "b", " ", "v", "e", "r", "s", "i",
      "o", "n", ":", " ", "1", ".", "0", ".", "0">>

ConsumerSumLine ==
    <<"5", " ", "+", " ", "7", " ", "=", " ", "1", "2">>

ConsumerText == ConsumerVersionLine \o <<"\n">> \o ConsumerSumLine \o <<"\n">>

HelloLine ==
    <<"H", "e", "l", "l", "o", " ", "f", "r", "o", "m", " ", "f", "m", "t", " ", "l",
      "i", "b", "r", "a", "r", "y", "!">>

FormattedLine ==
    <<"F", "o", "r", "m", "a", "t", "t", "e", "d", " ", "n", "u", "m", "b", "e", "r",
      ":", " ", "3", ".", "1", "4">>

JsonLabelLine ==
    <<"J", "S", "O", "N", " ", "o", "u", "t", "p", "u", "t", ":">>

JsonText ==
    <<"{", "\n", " ", " ", "\"", "d", "e", "p", "e", "n", "d", "e", "n", "c", "i", "e",
      "s", "\"", ":", " ", "[", "\n", " ", " ", " ", " ", "\"", "f", "m", "t", "\"", ",",
      "\n", " ", " ", " ", " ", "\"", "n", "l", "o", "h", "m", "a", "n", "n", "_", "j",
      "s", "o", "n", "\"", "\n", " ", " ", "]", ",", "\n", " ", " ", "\"", "n", "a", "m",
      "e", "\"", ":", " ", "\"", "F", "e", "t", "c", "h", "C", "o", "n", "t", "e", "n",
      "t", " ", "E", "x", "a", "m", "p", "l", "e", "\"", ",", "\n", " ", " ", "\"", "v",
      "e", "r", "s", "i", "o", "n", "\"", ":", " ", "\"", "1", ".", "0", ".", "0", "\"",
      "\n", "}">>

\* The items of the fetchcontent output, in program order.
FetchItems ==
    <<HelloLine \o <<"\n">>,
      FormattedLine \o <<"\n">>,
      <<"\n">>,
      JsonLabelLine \o <<"\n">>,
      JsonText \o <<"\n">>>>

FetchText == Concat(FetchItems)

KeyName == <<"n", "a", "m", "e">>

KeyVersion == <<"v", "e", "r", "s", "i", "o", "n">>

KeyDependencies == <<"d", "e", "p", "e", "n", "d", "e", "n", "c", "i", "e", "s">>

\* C1: whenever the last library call was get_version(), whatever calls of
\* get_version() and add() came before it, the value it returned is the
\* string "1.0.0".
C1_VersionLiteral ==
    (last = "get_version" /\ Returned) =>
        ret.kind = "string" /\ ret.s = <<"1", ".", "0", ".", "0">>

\* C1 witness: get_version() has returned after an earlier call of add().
C1_Witness ==
    /\ prog = "driver" /\ pc = "setx"
    /\ last = "get_version" /\ prev = "add" /\ ret.kind = "string"

\* C2: after add(x, y) with x + y in the range of int, the value returned is
\* exactly x + y; add(5, 7) in the consumer returns 12.
C2_AddIsSum ==
    /\ (AddReturned /\ InRange(x + y)) => (ret.kind = "int" /\ ret.i = x + y)
    /\ (AddReturned /\ x = 5 /\ y = 7) => (ret.kind = "int" /\ ret.i = 12)

\* C2 witness: the consumer's add(5, 7) has returned.
C2_Witness ==
    prog = "consumer" /\ AddReturned /\ x = 5 /\ y = 7 /\ ret.kind = "int"

\* C3 as stated: after add(x, y) with any int arguments, overflowing pairs
\* included, the value returned is the mathematical sum x + y and no error
\* results.
C3_AddTotal ==
    AddReturned => (ret.kind = "int" /\ ret.i = x + y)

\* C3 amended: add(x, y) returns the mathematical sum, without error, exactly
\* when x + y lies in the range of int; when the sum is above INT_MAX or
\* below INT_MIN the call never yields the mathematical sum.
C3_AddTotalInRange ==
    AddReturned =>
        /\ (ret.kind = "int" /\ ret.i = x + y) <=> InRange(x + y)
        /\ ret.kind = "trap" => ~InRange(x + y)
        /\ ret.kind = "int" => InRange(ret.i)

\* C3 witness: add has returned an int for a pair whose sum exceeds INT_MAX.
C3_Witness ==
    AddReturned /\ x + y > INT_MAX /\ ret.kind = "int"

C5_ConsumerOutput ==
    prog = "consumer" =>
        /\ IsPrefix(io.fd, ConsumerText)
        /\ IsPrefix(Written(io), ConsumerText)
        /\ pc = "done" =>
              /\ io.fd = ConsumerText
              /\ SplitLines(io.fd) = <<ConsumerVersionLine, ConsumerSumLine>>

\* C5 witness: the consumer has exited with two lines on standard output.
C5_Witness ==
    prog = "consumer" /\ pc = "done" /\ Len(SplitLines(io.fd)) = 2

\* C6: each entry point always reaches its end with exit status 0; until
\* then a step is always possible, the step after the last write is the
\* return with status 0, no step follows it, and no error state is reached.
C6_Terminates ==
    /\ (prog # "driver") ~> (pc = "done" /\ status = 0)
    /\ [](prog # "driver" =>
            /\ pc # "aborted"
            /\ status \in {-1, 0}
            /\ (pc = "done") <=> (status = 0)
            /\ pc # "done" => ENABLED <<ConsumerStep \/ FetchStep>>_vars)
    /\ [][(prog # "driver") =>
            (/\ pc # "done"
             /\ pc \in {"c12", "f21"} => (pc' = "done" /\ status' = 0))]_vars

\* C6 witness: the fetchcontent entry point has returned 0.
C6_Witness ==
    prog = "fetchcontent" /\ pc = "done" /\ status = 0 /\ io.buf = <<>>

\* C7: once built, j is an object with exactly the members name, version
\* and dependencies, with the values "FetchContent Example", "1.0.0" and
\* the array <<"fmt", "nlohmann_json">>; the text emitted for it is the
\* dump of that structure.
C7_JsonStructure ==
    (prog = "fetchcontent" /\ pc \in {"f18", "f19a", "f19b", "f21", "done"}) =>
        /\ j.t = "object"
        /\ DOMAIN j.m = {KeyName, KeyVersion, KeyDependencies}
        /\ j.m[KeyName].t = "string"
        /\ j.m[KeyName].s = <<"F", "e", "t", "c", "h", "C", "o", "n", "t", "e", "n",
                              "t", " ", "E", "x", "a", "m", "p", "l", "e">>
        /\ j.m[KeyVersion].t = "string"
        /\ j.m[KeyVersion].s = <<"1", ".", "0", ".", "0">>
        /\ j.m[KeyDependencies].t = "array"
        /\ Len(j.m[KeyDependencies].elems) = 2
        /\ j.m[KeyDependencies].elems[1].t = "string"
        /\ j.m[KeyDependencies].elems[1].s = <<"f", "m", "t">>
        /\ j.m[KeyDependencies].elems[2].t = "string"
        /\ j.m[KeyDependencies].elems[2].s =
              <<"n", "l", "o", "h", "m", "a", "n", "n", "_", "j", "s", "o", "n">>
        /\ pc = "f19b" =>
              LET w == Written(io)
              IN  /\ Len(w) >= Len(JsonText)
                  /\ SubSeq(w, Len(w) - Len(JsonText) + 1, Len(w)) = JsonText

\* C7 witness: the dump of j has been written.
C7_Witness ==
    prog = "fetchcontent" /\ pc = "f19b" /\ j.t = "object"

\* C8: once line 10 has run, the second line written by fetchcontent is
\* "Formatted number: 3.14".
C8_FormattedNumber ==
    (prog = "fetchcontent" /\ pc \notin {"f9", "f10"}) =>
        /\ Len(SplitLines(Written(io))) >= 2
        /\ SplitLines(Written(io))[2] = FormattedLine

\* C8 witness: line 10 has just run.
C8_Witness ==
    prog = "fetchcontent" /\ pc = "f13" /\ Len(SplitLines(Written(io))) = 2

\* C9: what has reached standard output of fetchcontent is always a prefix
\* of its items in program order (fmt line, number line, empty line, "JSON
\* output:", the JSON text), as is what has been written; at exit it is all
\* of them.
C9_ProgramOrder ==
    prog = "fetchcontent" =>
        /\ IsPrefix(io.fd, FetchText)
        /\ IsPrefix(Written(io), FetchText)
        /\ pc = "done" => io.fd = FetchText

\* C9 witness: std::cout has written while text of fmt::print is still in
\* the stdio buffer.
C9_Witness ==
    /\ prog = "fetchcontent" /\ pc = "f19a"
    /\ io.fd = <<>>
    /\ Len(io.buf) > Len(HelloLine) + Len(FormattedLine) + 2

\* C10: after add(x, y) with x + y in the range of int, the value returned
\* is the one add(y, x) returns; after add(x, 0) it is x and after
\* add(0, y) it is y.
C10_CommutativeIdentity ==
    AddReturned =>
        /\ InRange(x + y) => add(y, x) = {ret}
        /\ y = 0 => (ret.kind = "int" /\ ret.i = x)
        /\ x = 0 => (ret.kind = "int" /\ ret.i = y)

\* C10 witness: add(0, INT_MIN) has returned.
C10_Witness ==
    prog = "driver" /\ AddReturned /\ x = 0 /\ y = INT_MIN /\ ret.kind = "int"

=============================================================================
